---- MODULE Spec2Model ----
(***************************************************************************)
(* Model of TaskManager (src/examen2parcial.py): a heapq-backed list of    *)
(* (priority, task) pairs, a set of completed task names and a JSON file   *)
(* rewritten after every mutating operation.                               *)
(*                                                                         *)
(* heapq is modelled as CPython's _heapq does it: comparisons are made on  *)
(* the stored items themselves, (priority, dict) tuples or, once read back *)
(* from JSON, [priority, dict] lists.  Comparing two items of equal        *)
(* priority falls through to the dicts: equal dicts compare "not less",    *)
(* different dicts raise TypeError, and so does comparing a tuple with a   *)
(* list.  When a comparison raises inside heappush/heappop/heapify the     *)
(* list is left as the sift had arranged it so far.                        *)
(*                                                                         *)
(* Spec follows the calls of one or more program runs on a working disk;   *)
(* SpecIO lets the disk start failing; SpecDeep follows longer runs on a   *)
(* smaller set of calls.                                                   *)
(***************************************************************************)
EXTENDS Integers, Sequences, FiniteSets, Bags, TLC

VARIABLES tasks,            \* self.tasks: the heap array
          completed_tasks,  \* self.completed_tasks
          file,             \* content of self.filename
          disk,             \* what writing the file does: "ok", "readonly"
                            \* (open raises), "full" (the write raises)
          session,          \* "up", or "crashed" when the constructor raised
          last,             \* the last call: operation, arguments, outcome
          pre,              \* store and file as they were when that call began
          reloads,          \* number of restarts so far
          raised,           \* number of calls so far that raised TypeError
          succeeded         \* names for which a complete_task call found a
                            \* task and returned normally (history)

vars == <<tasks, completed_tasks, file, disk, session, last, pre, reloads,
          raised, succeeded>>

(************************* bounds and input sets ***************************)
MaxTasks == 3
MaxReloads == 1
MaxRaised == 1

\* Strings are sequences of characters.
A == <<"A">>
B == <<"B">>
G == <<"G">>
Empty == <<>>
Blank == <<" ", " ">>

Names == {A, B}
CompleteInputs == Names \cup {G}

\* A number is its Python type and its value in tenths (1.5 is 15 tenths).
Int10(n) == [type |-> "int", tenths |-> 10 * n]
Float10(t) == [type |-> "float", tenths |-> t]

None == "None"
Date1 == "2024-01-01"

\* the dependencies argument: absent (None) or a list of names
NoList == [none |-> TRUE, list |-> <<>>]
List(l) == [none |-> FALSE, list |-> l]

Args(name, priority, dependencies, due_date) ==
    [name |-> name, priority |-> priority,
     dependencies |-> dependencies, due_date |-> due_date]

\* the add_task calls tried: a negative and two positive priorities, two
\* different tasks of equal priority (one without due date, one with), two
\* names, a dependency on A and a dependency on a name that is never a task;
\* calling twice with the same arguments gives two equal tasks
ValidInputs ==
    { Args(A, Int10(-1), NoList, None),
      Args(A, Int10(1), List(<<G>>), None),
      Args(B, Int10(1), List(<<A>>), Date1),
      Args(B, Int10(2), List(<<>>), Date1) }

InvalidInputs ==
    { Args(Empty, Int10(1), NoList, None),
      Args(Blank, Int10(1), NoList, None),
      Args(A, Float10(15), NoList, None) }

AddInputs == ValidInputs \cup InvalidInputs

(***************************** strings *************************************)
Whitespace == {" ", "\t", "\n"}

\* str.strip(): drop leading and trailing whitespace
RECURSIVE lstrip(_)
lstrip(s) ==
    IF s # <<>> /\ Head(s) \in Whitespace THEN lstrip(Tail(s)) ELSE s

RECURSIVE rstrip(_)
rstrip(s) ==
    IF s # <<>> /\ s[Len(s)] \in Whitespace THEN rstrip(SubSeq(s, 1, Len(s) - 1)) ELSE s

strip(s) == rstrip(lstrip(s))

\* rank of the strings used as sort keys in their lexicographic order
StrRank(s) == CASE s = "" -> 0 [] s = Date1 -> 1

\* x or y, for an optional string x
StrOr(x, y) == IF x = None \/ x = "" THEN y ELSE x

\* x or y, for an optional list x
ListOr(x, y) == IF x.none \/ x.list = <<>> THEN y ELSE x.list

(************************ heap items and comparison ************************)
Task(name, priority, dependencies, due_date) ==
    [name |-> name, priority |-> priority,
     dependencies |-> dependencies, due_date |-> due_date]

\* (priority, task) as pushed by add_task
Item(priority, task) == [priority |-> priority, task |-> task, kind |-> "tuple"]

\* item < other raises TypeError
CmpRaises(a, b) ==
    \/ a.kind # b.kind
    \/ a.priority = b.priority /\ a.task # b.task

\* item < other, when it does not raise
Lt(a, b) == a.priority < b.priority

Swap(arr, i, j) == [arr EXCEPT ![i + 1] = arr[j + 1], ![j + 1] = arr[i + 1]]

Ok(arr) == [heap |-> arr, err |-> "none"]
Raised(arr) == [heap |-> arr, err |-> "TypeError"]

\* _heapq siftdown: positions are 0-based as in the C code
RECURSIVE siftdown(_, _, _)
siftdown(arr, startpos, pos) ==
    IF pos > startpos
    THEN LET parentpos == (pos - 1) \div 2
             newitem == arr[pos + 1]
             parent == arr[parentpos + 1]
         IN  IF CmpRaises(newitem, parent) THEN Raised(arr)
             ELSE IF ~Lt(newitem, parent) THEN Ok(arr)
             ELSE siftdown(Swap(arr, parentpos, pos), startpos, parentpos)
    ELSE Ok(arr)

\* _heapq siftup: bubble the smaller child up to a leaf, then siftdown
RECURSIVE siftup_from(_, _, _)
siftup_from(arr, startpos, pos) ==
    LET endpos == Len(arr)
        limit == endpos \div 2
        childpos == 2 * pos + 1
        hasRight == childpos + 1 < endpos
    IN  IF pos < limit
        THEN IF hasRight /\ CmpRaises(arr[childpos + 1], arr[childpos + 2])
             THEN Raised(arr)
             ELSE LET c == IF hasRight /\ ~Lt(arr[childpos + 1], arr[childpos + 2])
                           THEN childpos + 1 ELSE childpos
                  IN  siftup_from(Swap(arr, c, pos), startpos, c)
        ELSE siftdown(arr, startpos, pos)

siftup(arr, pos) == siftup_from(arr, pos, pos)

\* heapq.heappush(heap, item)
heappush(heap, item) ==
    LET arr == Append(heap, item)
    IN  siftdown(arr, 0, Len(arr) - 1)

\* heapq.heappop(heap), for a non-empty heap; on TypeError the popped root
\* is not returned and is gone from the list
heappop(heap) ==
    LET n == Len(heap)
        lastelt == heap[n]
        rest == SubSeq(heap, 1, n - 1)
    IN  IF n = 1 THEN [item |-> lastelt, heap |-> rest, err |-> "none"]
        ELSE LET r == siftup([rest EXCEPT ![1] = lastelt], 0)
             IN  [item |-> heap[1], heap |-> r.heap, err |-> r.err]

\* heapq.heapify(x)
RECURSIVE heapify_from(_, _)
heapify_from(arr, i) ==
    IF i < 0 THEN Ok(arr)
    ELSE LET r == siftup(arr, i)
         IN  IF r.err # "none" THEN r ELSE heapify_from(r.heap, i - 1)

heapify(arr) == heapify_from(arr, (Len(arr) \div 2) - 1)

(****************************** persistence ********************************)
NoFile == [exists |-> FALSE, whole |-> FALSE, tasks |-> <<>>, completed_tasks |-> {}]

\* open(self.filename, "w") has emptied the file and the write did not happen
Truncated == [exists |-> TRUE, whole |-> FALSE, tasks |-> <<>>, completed_tasks |-> {}]

\* json.dump writes a tuple as an array, json.load reads an array as a list
json_item(item) == [item EXCEPT !.kind = "list"]
json_tasks(ts) == [i \in 1..Len(ts) |-> json_item(ts[i])]

\* save_tasks: the file content written from the store
save_tasks(ts, cs) ==
    [exists |-> TRUE, whole |-> TRUE, tasks |-> json_tasks(ts), completed_tasks |-> cs]

\* faulty variant: a failing write is swallowed
write_quiet(f, content) ==
    CASE disk = "ok" -> [file |-> content, err |-> "none"]
      [] disk = "readonly" -> [file |-> f, err |-> "none"]
      [] disk = "full" -> [file |-> Truncated, err |-> "none"]

\* with open(self.filename, "w") as f: json.dump(..., f): the file left behind
\* and the error raised
write(f, content) ==
    CASE disk = "ok" -> [file |-> content, err |-> "none"]
      [] disk = "readonly" -> [file |-> f, err |-> "OSError"]
      [] disk = "full" -> [file |-> Truncated, err |-> "OSError"]

\* load_tasks on a fresh TaskManager
load_tasks(f) ==
    IF f.exists /\ ~f.whole
    THEN [tasks |-> <<>>, completed_tasks |-> {}, err |-> "JSONDecodeError"]
    ELSE IF f.exists
    THEN LET r == heapify(f.tasks)
         IN  [tasks |-> r.heap, completed_tasks |-> f.completed_tasks, err |-> r.err]
    ELSE [tasks |-> <<>>, completed_tasks |-> {}, err |-> "none"]

(******************************* results ***********************************)
NoneValue == [type |-> "NoneType"]
DictValue(task) == [type |-> "dict", value |-> task]
NoArgs == [name |-> <<>>]
NoOutput == <<>>

Call(op, args, ret, err, out) ==
    [op |-> op, args |-> args, ret |-> ret, err |-> err, out |-> out]

Snapshot ==
    [tasks |-> tasks, completed_tasks |-> completed_tasks, file |-> file,
     disk |-> disk]

\* the calls so far that raised TypeError are counted (Next bounds the count)
CountRaised(err) ==
    raised' = IF err = "TypeError" THEN raised + 1 ELSE raised

(******************************* add_task **********************************)
\* faulty variant: the name is tested without strip()
NameIsEmpty_nostrip(name) == name = <<>>

NameIsEmpty(name) == strip(name) = <<>>

IsInt(priority) == priority.type = "int"

IntValue(priority) == priority.tenths \div 10

add_task(name, priority, dependencies, due_date) ==
    /\ session = "up"
    /\ pre' = Snapshot
    /\ UNCHANGED <<completed_tasks, disk, session, reloads, succeeded>>
    /\ LET args == Args(name, priority, dependencies, due_date)
       IN  IF NameIsEmpty(name) \/ ~IsInt(priority)
           THEN /\ UNCHANGED <<tasks, file, raised>>
                /\ last' = Call("add_task", args, NoneValue, "ValueError", NoOutput)
           ELSE LET task == Task(name, IntValue(priority),
                                 ListOr(dependencies, <<>>), due_date)
                    r == heappush(tasks, Item(IntValue(priority), task))
                    w == IF r.err = "none"
                         THEN write(file, save_tasks(r.heap, completed_tasks))
                         ELSE [file |-> file, err |-> r.err]
                IN  /\ tasks' = r.heap
                    /\ file' = w.file
                    /\ last' = Call("add_task", args, NoneValue, w.err, NoOutput)
                    /\ CountRaised(w.err)

(****************************** show_tasks *********************************)
\* faulty variant: the sort key leaves the due date out
SortKey_priority_only(item) == [priority |-> item.priority, due |-> 0]

SortKey(item) ==
    [priority |-> item.priority, due |-> StrRank(StrOr(item.task.due_date, ""))]

KeyLt(k1, k2) ==
    \/ k1.priority < k2.priority
    \/ k1.priority = k2.priority /\ k1.due < k2.due

\* insert x after every element whose key is not greater (sorted is stable)
RECURSIVE insort(_, _)
insort(s, x) ==
    IF s = <<>> THEN <<x>>
    ELSE IF KeyLt(SortKey(x), SortKey(Head(s))) THEN <<x>> \o s
    ELSE <<Head(s)>> \o insort(Tail(s), x)

RECURSIVE sorted_from(_, _)
sorted_from(s, acc) ==
    IF s = <<>> THEN acc ELSE sorted_from(Tail(s), insort(acc, Head(s)))

sorted(s) == sorted_from(s, <<>>)

\* faulty variant: self.tasks.sort(key=...) instead of sorted(self.tasks, key=...)
show_tasks_inplace ==
    /\ session = "up"
    /\ pre' = Snapshot
    /\ tasks' = sorted(tasks)
    /\ UNCHANGED <<completed_tasks, file, disk, session, reloads, raised, succeeded>>
    /\ last' = Call("show_tasks", NoArgs, NoneValue, "none", sorted(tasks))

show_tasks ==
    /\ session = "up"
    /\ pre' = Snapshot
    /\ UNCHANGED <<tasks, completed_tasks, file, disk, session, reloads, raised,
                   succeeded>>
    /\ last' = Call("show_tasks", NoArgs, NoneValue, "none", sorted(tasks))

(***************************** complete_task *******************************)
\* faulty variant: only the first task carrying task_name is taken out
RECURSIVE drain_first(_, _, _, _, _)
drain_first(ts, cs, remaining_tasks, task_found, task_name) ==
    IF ts = <<>>
    THEN [tasks |-> ts, completed_tasks |-> cs, remaining_tasks |-> remaining_tasks,
          task_found |-> task_found, err |-> "none"]
    ELSE LET r == heappop(ts)
         IN  IF r.err # "none"
             THEN [tasks |-> r.heap, completed_tasks |-> cs,
                   remaining_tasks |-> remaining_tasks,
                   task_found |-> task_found, err |-> r.err]
             ELSE IF r.item.task.name = task_name /\ ~task_found
             THEN drain_first(r.heap, cs \cup {task_name}, remaining_tasks,
                              TRUE, task_name)
             ELSE drain_first(r.heap, cs,
                              Append(remaining_tasks, Item(r.item.priority, r.item.task)),
                              task_found, task_name)

\* faulty variant: the name is put into completed for every popped task
RECURSIVE drain_marks_always(_, _, _, _, _)
drain_marks_always(ts, cs, remaining_tasks, task_found, task_name) ==
    IF ts = <<>>
    THEN [tasks |-> ts, completed_tasks |-> cs, remaining_tasks |-> remaining_tasks,
          task_found |-> task_found, err |-> "none"]
    ELSE LET r == heappop(ts)
         IN  IF r.err # "none"
             THEN [tasks |-> r.heap, completed_tasks |-> cs,
                   remaining_tasks |-> remaining_tasks,
                   task_found |-> task_found, err |-> r.err]
             ELSE IF r.item.task.name = task_name
             THEN drain_marks_always(r.heap, cs \cup {task_name}, remaining_tasks,
                                     TRUE, task_name)
             ELSE drain_marks_always(r.heap, cs \cup {task_name},
                        Append(remaining_tasks, Item(r.item.priority, r.item.task)),
                        task_found, task_name)

\* faulty variant: completed is replaced by the name instead of growing by it
RECURSIVE drain_resets(_, _, _, _, _)
drain_resets(ts, cs, remaining_tasks, task_found, task_name) ==
    IF ts = <<>>
    THEN [tasks |-> ts, completed_tasks |-> cs, remaining_tasks |-> remaining_tasks,
          task_found |-> task_found, err |-> "none"]
    ELSE LET r == heappop(ts)
         IN  IF r.err # "none"
             THEN [tasks |-> r.heap, completed_tasks |-> cs,
                   remaining_tasks |-> remaining_tasks,
                   task_found |-> task_found, err |-> r.err]
             ELSE IF r.item.task.name = task_name
             THEN drain_resets(r.heap, {task_name}, remaining_tasks, TRUE, task_name)
             ELSE drain_resets(r.heap, cs,
                        Append(remaining_tasks, Item(r.item.priority, r.item.task)),
                        task_found, task_name)

\* the while loop: pop everything, keep what does not carry task_name
RECURSIVE drain(_, _, _, _, _)
drain(ts, cs, remaining_tasks, task_found, task_name) ==
    IF ts = <<>>
    THEN [tasks |-> ts, completed_tasks |-> cs, remaining_tasks |-> remaining_tasks,
          task_found |-> task_found, err |-> "none"]
    ELSE LET r == heappop(ts)
         IN  IF r.err # "none"
             THEN [tasks |-> r.heap, completed_tasks |-> cs,
                   remaining_tasks |-> remaining_tasks,
                   task_found |-> task_found, err |-> r.err]
             ELSE IF r.item.task.name = task_name
             THEN drain(r.heap, cs \cup {task_name}, remaining_tasks, TRUE, task_name)
             ELSE drain(r.heap, cs,
                        Append(remaining_tasks, Item(r.item.priority, r.item.task)),
                        task_found, task_name)

\* the for loop: push the kept items back
RECURSIVE restore(_, _)
restore(ts, remaining_tasks) ==
    IF remaining_tasks = <<>> THEN Ok(ts)
    ELSE LET r == heappush(ts, Head(remaining_tasks))
         IN  IF r.err # "none" THEN r ELSE restore(r.heap, Tail(remaining_tasks))

\* faulty variant: the message is printed whether or not the task was found
not_found_output_always(task_found) == <<"no se encontro">>

\* if not task_found: print(...)
not_found_output(task_found) ==
    IF task_found THEN NoOutput ELSE <<"no se encontro">>

complete_task(task_name) ==
    /\ session = "up"
    /\ pre' = Snapshot
    /\ UNCHANGED <<disk, session, reloads>>
    /\ LET d == drain(tasks, completed_tasks, <<>>, FALSE, task_name)
           out == not_found_output(d.task_found)
           args == [name |-> task_name]
       IN  /\ completed_tasks' = d.completed_tasks
           /\ IF d.err # "none"
              THEN /\ tasks' = d.tasks
                   /\ UNCHANGED file
                   /\ last' = Call("complete_task", args, NoneValue, d.err, NoOutput)
                   /\ CountRaised(d.err)
                   /\ UNCHANGED succeeded
              ELSE LET r == restore(d.tasks, d.remaining_tasks)
                       w == IF r.err = "none"
                            THEN write(file, save_tasks(r.heap, d.completed_tasks))
                            ELSE [file |-> file, err |-> r.err]
                   IN  /\ tasks' = r.heap
                       /\ file' = w.file
                       /\ last' = Call("complete_task", args, NoneValue, w.err, out)
                       /\ CountRaised(w.err)
                       /\ succeeded' = IF w.err = "none" /\ d.task_found
                                       THEN succeeded \cup {task_name}
                                       ELSE succeeded

(******************************* next_task *********************************)
is_executable(task, cs) ==
    \A i \in 1..Len(task.dependencies) : task.dependencies[i] \in cs

next_task ==
    /\ session = "up"
    /\ pre' = Snapshot
    /\ UNCHANGED <<tasks, completed_tasks, file, disk, session, reloads, raised,
                   succeeded>>
    /\ last' = IF tasks # <<>>
               THEN IF is_executable(tasks[1].task, completed_tasks)
                    THEN Call("next_task", NoArgs, DictValue(tasks[1].task),
                              "none", NoOutput)
                    ELSE Call("next_task", NoArgs, NoneValue, "none",
                              <<"no es ejecutable">>)
               ELSE Call("next_task", NoArgs, NoneValue, "none",
                         <<"no hay tareas pendientes">>)

(************************* construction, restart ***************************)
\* main(): the program is started again on the file the last run left
restart ==
    /\ reloads' = reloads + 1
    /\ pre' = Snapshot
    /\ UNCHANGED <<file, disk, raised, succeeded>>
    /\ LET l == load_tasks(file)
       IN  /\ last' = Call("load_tasks", NoArgs, NoneValue, l.err, NoOutput)
           /\ IF l.err = "none"
              THEN /\ session' = "up"
                   /\ tasks' = l.tasks
                   /\ completed_tasks' = l.completed_tasks
              ELSE /\ session' = "crashed"
                   /\ tasks' = <<>>
                   /\ completed_tasks' = {}

Init ==
    /\ tasks = <<>>
    /\ completed_tasks = {}
    /\ file = NoFile
    /\ disk = "ok"
    /\ session = "up"
    /\ reloads = 0
    /\ raised = 0
    /\ succeeded = {}
    /\ last = Call("load_tasks", NoArgs, NoneValue, "none", NoOutput)
    /\ pre = [tasks |-> <<>>, completed_tasks |-> {}, file |-> NoFile, disk |-> "ok"]

\* the runs explored: at most max_tasks pending entries, max_reloads
\* restarts and max_raised calls that end in a TypeError
Room(max_tasks) == Len(tasks) < max_tasks

Within(max_reloads, max_raised) ==
    /\ reloads' <= max_reloads
    /\ raised' <= max_raised

Next ==
    \/ \E a \in AddInputs :
            /\ Room(MaxTasks)
            /\ add_task(a.name, a.priority, a.dependencies, a.due_date)
            /\ Within(MaxReloads, MaxRaised)
    \/ show_tasks
    \/ \E task_name \in CompleteInputs :
            complete_task(task_name) /\ Within(MaxReloads, MaxRaised)
    \/ next_task
    \/ restart /\ Within(MaxReloads, MaxRaised)

Spec == Init /\ [][Next]_vars

(************************ runs with a failing disk *************************)
\* from some moment on the file cannot be opened for writing, or the device
\* is full
disk_fails ==
    /\ disk = "ok"
    /\ \E d \in {"readonly", "full"} : disk' = d
    /\ UNCHANGED <<tasks, completed_tasks, file, session, last, pre, reloads,
                   raised, succeeded>>

IOInputs ==
    { Args(A, Int10(-1), NoList, None),
      Args(B, Int10(1), List(<<A>>), Date1) }

NextIO ==
    \/ \E a \in IOInputs :
            /\ Room(MaxTasks)
            /\ add_task(a.name, a.priority, a.dependencies, a.due_date)
            /\ Within(MaxReloads, MaxRaised)
    \/ \E task_name \in Names :
            complete_task(task_name) /\ Within(MaxReloads, MaxRaised)
    \/ restart /\ Within(MaxReloads, MaxRaised)
    \/ disk_fails

SpecIO == Init /\ [][NextIO]_vars

(********************** longer runs on fewer inputs ************************)
\* one more pending entry and one more raising call than Spec follows, on
\* four add_task calls (a second task of name B and priority 2, without a
\* due date) and complete_task of A only
DeepTasks == MaxTasks + 1
DeepRaised == MaxRaised + 1

DeepInputs ==
    { Args(A, Int10(-1), NoList, None),
      Args(B, Int10(1), List(<<A>>), Date1),
      Args(B, Int10(2), List(<<>>), Date1),
      Args(B, Int10(2), List(<<>>), None) }

NextDeep ==
    \/ \E a \in DeepInputs :
            /\ Room(DeepTasks)
            /\ add_task(a.name, a.priority, a.dependencies, a.due_date)
            /\ Within(MaxReloads, DeepRaised)
    \/ complete_task(A) /\ Within(MaxReloads, DeepRaised)
    \/ restart /\ Within(MaxReloads, DeepRaised)

SpecDeep == Init /\ [][NextDeep]_vars

TypeOK ==
    /\ Len(tasks) <= MaxTasks
    /\ session \in {"up", "crashed"}
    /\ reloads \in 0..MaxReloads

(***************************************************************************)
(*                               Properties                                *)
(***************************************************************************)
\* the tasks of a heap array as a multiset
TaskBag(ts) ==
    LET ds == {ts[i].task : i \in 1..Len(ts)}
    IN  [t \in ds |-> Cardinality({i \in 1..Len(ts) : ts[i].task = t})]

Named(ts, name) == {i \in 1..Len(ts) : ts[i].task.name = name}

NotNamed(ts, name) == SelectSeq(ts, LAMBDA item : item.task.name # name)

MinPriority(ts, i) == \A j \in 1..Len(ts) : ts[i].priority <= ts[j].priority

Completing == last.op = "complete_task"

ValidAdd ==
    /\ last.op = "add_task"
    /\ last.args.name \notin {Empty, Blank}
    /\ last.args.priority.type = "int"

AddedTask ==
    Task(last.args.name, last.args.priority.tenths \div 10,
         last.args.dependencies.list, last.args.due_date)

\* C1: complete_task(name) with a pending task of that name puts name into
\* completed, takes a task of that name out of pending and keeps every
\* pending task of another name (the multiset of the other tasks is the
\* same after the call as before it).
C1_CompleteKeepsOthers ==
    (Completing /\ Named(pre.tasks, last.args.name) # {}) =>
        /\ last.args.name \in completed_tasks
        /\ Cardinality(Named(tasks, last.args.name))
              < Cardinality(Named(pre.tasks, last.args.name))
        /\ TaskBag(NotNamed(tasks, last.args.name))
              = TaskBag(NotNamed(pre.tasks, last.args.name))

\* C2: add_task with a non-blank name and an integer priority always
\* succeeds, adds exactly that one task to pending and leaves completed
\* alone, whatever the store holds.
C2_AddAlwaysSucceeds ==
    ValidAdd =>
        /\ last.err = "none"
        /\ TaskBag(tasks) = TaskBag(pre.tasks) (+) SetToBag({AddedTask})
        /\ completed_tasks = pre.completed_tasks

\* C3: next_task returns nothing on an empty pending; otherwise it looks at
\* a task of minimal priority among all pending tasks and returns it if and
\* only if all its dependencies are completed, nothing otherwise.
C3_NextLooksAtMinimum ==
    last.op = "next_task" =>
        IF tasks = <<>> THEN last.ret = NoneValue
        ELSE \E i \in 1..Len(tasks) :
                /\ MinPriority(tasks, i)
                /\ last.ret = IF is_executable(tasks[i].task, completed_tasks)
                              THEN DictValue(tasks[i].task) ELSE NoneValue

\* C4: a pending task with dependencies [A] is not executable, and is not
\* returned by next_task, before a complete_task(A) call has succeeded; it
\* is executable in every state after one has; and next_task returns it once
\* one has and it is the only pending task of minimal priority.
DependsOnA(item) == item.task.dependencies = <<A>>

C4_DependencyGating ==
    \A i \in 1..Len(tasks) :
        DependsOnA(tasks[i]) =>
            /\ A \notin succeeded => ~is_executable(tasks[i].task, completed_tasks)
            /\ A \in succeeded => is_executable(tasks[i].task, completed_tasks)
            /\ (last.op = "next_task" /\ last.ret = DictValue(tasks[i].task))
                   => A \in succeeded
            /\ ( /\ last.op = "next_task"
                 /\ A \in succeeded
                 /\ \A j \in 1..Len(tasks) :
                        j # i => tasks[i].priority < tasks[j].priority )
                   => last.ret = DictValue(tasks[i].task)

\* C5: complete_task(name) with no pending task of that name reports
\* not-found and leaves the pending multiset and the completed set as they
\* were.
C5_NotFoundChangesNothing ==
    (Completing /\ Named(pre.tasks, last.args.name) = {}) =>
        /\ last.out = <<"no se encontro">>
        /\ TaskBag(tasks) = TaskBag(pre.tasks)
        /\ completed_tasks = pre.completed_tasks

\* C6 (as claimed): complete_task(name) returns a boolean, true when a
\* pending task of that name existed at the call and false otherwise.
BoolValue(b) == [type |-> "bool", value |-> b]

C6_ReturnsBoolean ==
    (Completing /\ last.err = "none") =>
        last.ret = BoolValue(Named(pre.tasks, last.args.name) # {})

\* C6 (amended): a complete_task(name) call that returns normally returns
\* None; it tells whether a match was found only by printing the not-found
\* message, which it does exactly when no pending task of that name existed
\* at the call.
C6_ReportsByMessage ==
    (Completing /\ last.err = "none") =>
        /\ last.ret = NoneValue
        /\ last.out = <<"no se encontro">> <=> Named(pre.tasks, last.args.name) = {}

C6_Witness ==
    /\ Completing
    /\ last.err = "none"
    /\ Named(pre.tasks, last.args.name) # {}
    /\ NotNamed(pre.tasks, last.args.name) # <<>>
    /\ last.out = <<>>

\* C7 (as claimed): when several pending tasks carry the name passed to
\* complete_task, the call removes exactly one of them and the others stay
\* pending under that name.
Several == Cardinality(Named(pre.tasks, last.args.name)) >= 2

C7_OnlyFirstRemoved ==
    (Completing /\ last.err = "none" /\ Several) =>
        Cardinality(Named(tasks, last.args.name))
            = Cardinality(Named(pre.tasks, last.args.name)) - 1

\* C7 (amended): when several pending tasks carry the name passed to
\* complete_task and the call returns normally, the call removes all of
\* them: no task of that name stays pending, the name is in completed and
\* the tasks of other names are all kept.
C7_AllNamedRemoved ==
    (Completing /\ last.err = "none" /\ Several) =>
        /\ Named(tasks, last.args.name) = {}
        /\ last.args.name \in completed_tasks
        /\ TaskBag(NotNamed(tasks, last.args.name))
              = TaskBag(NotNamed(pre.tasks, last.args.name))

C7_Witness ==
    /\ Completing
    /\ last.err = "none"
    /\ Several
    /\ \E i, j \in Named(pre.tasks, last.args.name) :
           pre.tasks[i].priority # pre.tasks[j].priority
    /\ tasks # <<>>

\* C8: add_task with an empty or whitespace-only name, or with a priority
\* that is not an integer, raises the validation error and leaves pending,
\* completed and the file as they were.
InvalidAdd ==
    /\ last.op = "add_task"
    /\ \/ last.args.name \in {Empty, Blank}
       \/ last.args.priority.type # "int"

C8_InvalidAddRejected ==
    InvalidAdd =>
        /\ last.err = "ValueError"
        /\ tasks = pre.tasks
        /\ completed_tasks = pre.completed_tasks
        /\ file = pre.file

C8_Witness ==
    /\ InvalidAdd
    /\ last.args.name = Blank
    /\ last.err = "ValueError"
    /\ tasks # <<>>
    /\ file.exists

\* C9: show_tasks lists all pending tasks by ascending priority and, among
\* equal priorities, by ascending due date, a task without a due date
\* before any task with one.
DueOrder(due_date) ==
    CASE due_date = None -> 0 [] due_date = Date1 -> 1

InOrder(a, b) ==
    \/ a.priority < b.priority
    \/ /\ a.priority = b.priority
       /\ DueOrder(a.task.due_date) <= DueOrder(b.task.due_date)

C9_ListSorted ==
    last.op = "show_tasks" =>
        /\ Len(last.out) = Len(tasks)
        /\ TaskBag(last.out) = TaskBag(tasks)
        /\ \A i, j \in 1..Len(last.out) : i < j => InOrder(last.out[i], last.out[j])

C9_Witness ==
    /\ last.op = "show_tasks"
    /\ \E i, j \in 1..Len(tasks) :
           /\ i < j
           /\ tasks[i].priority = tasks[j].priority
           /\ tasks[i].task.due_date # None
           /\ tasks[j].task.due_date = None
    /\ \E i, j \in 1..Len(tasks) : tasks[i].priority < 0 /\ tasks[j].priority > 0

\* C10: show_tasks and next_task leave pending (content and internal
\* order), completed and the file exactly as they were.
Reading == last.op \in {"show_tasks", "next_task"}

C10_ReadsChangeNothing ==
    Reading =>
        /\ tasks = pre.tasks
        /\ completed_tasks = pre.completed_tasks
        /\ file = pre.file

C10_Witness ==
    /\ last.op = "show_tasks"
    /\ Len(tasks) >= 2
    /\ last.out # tasks
    /\ tasks = pre.tasks

\* C11: a pending task that depends on G, a name no task ever carries, is
\* never returned by next_task; G never enters completed; and next_task
\* reports blocked whenever such a task is the only pending task of minimal
\* priority.
DependsOnGhost(item) ==
    \E k \in 1..Len(item.task.dependencies) : item.task.dependencies[k] = G

C11_GhostBlocksForever ==
    /\ G \notin completed_tasks
    /\ \A i \in 1..Len(tasks) :
          DependsOnGhost(tasks[i]) =>
              /\ ~(last.op = "next_task" /\ last.ret = DictValue(tasks[i].task))
              /\ ( /\ last.op = "next_task"
                   /\ \A j \in 1..Len(tasks) :
                          j # i => tasks[i].priority < tasks[j].priority )
                     => last.out = <<"no es ejecutable">>

\* C12: in every store the program reaches, saving and then loading the
\* written file into a fresh store succeeds and gives the same multiset of
\* pending tasks and the same completed set.
Reloaded == load_tasks(save_tasks(tasks, completed_tasks))

C12_RoundTrip ==
    session = "up" =>
        /\ Reloaded.err = "none"
        /\ TaskBag(Reloaded.tasks) = TaskBag(tasks)
        /\ Reloaded.completed_tasks = completed_tasks

\* C13: after load and after every add_task and complete_task call, whether
\* it returned or raised, no pending entry has a smaller priority than its
\* parent in the array, and the entry at the root has the minimal priority.
IsHeap(ts) == \A i \in 2..Len(ts) : ts[i \div 2].priority <= ts[i].priority

C13_HeapInvariant ==
    session = "up" =>
        /\ IsHeap(tasks)
        /\ tasks # <<>> => MinPriority(tasks, 1)

\* C14: when an add_task call that put a task into pending ends, and when a
\* complete_task call ends, the file holds exactly the pending entries and
\* the completed names the store holds.
Inserting == last.op = "add_task" /\ Len(tasks) > Len(pre.tasks)

C14_FileTracksMemory ==
    (Inserting \/ Completing) => file = save_tasks(tasks, completed_tasks)

\* C15: within a session a name enters completed only by a complete_task
\* call made with exactly that name while a task of that name was pending;
\* add_task, show_tasks, next_task and a complete_task that finds no match
\* add nothing to completed.
InSession == last.op # "load_tasks"

C15_CompletedProvenance ==
    InSession =>
        \A name \in completed_tasks \ pre.completed_tasks :
            /\ Completing
            /\ last.args.name = name
            /\ Named(pre.tasks, name) # {}

C15_Witness ==
    /\ Completing
    /\ last.args.name \in completed_tasks \ pre.completed_tasks
    /\ pre.completed_tasks # {}
    /\ tasks # <<>>

\* C16: within a session no call takes a name out of completed, and a task
\* that was pending and executable before a call is executable after it if
\* it is still pending.
C16_CompletedAppendOnly ==
    InSession =>
        /\ pre.completed_tasks \subseteq completed_tasks
        /\ \A i \in 1..Len(pre.tasks), j \in 1..Len(tasks) :
               ( /\ pre.tasks[i].task = tasks[j].task
                 /\ is_executable(pre.tasks[i].task, pre.completed_tasks) )
                   => is_executable(tasks[j].task, completed_tasks)

C16_Witness ==
    /\ Completing
    /\ last.err = "none"
    /\ Named(pre.tasks, last.args.name) # {}
    /\ pre.completed_tasks # {}
    /\ \E i \in 1..Len(pre.tasks), j \in 1..Len(tasks) :
           /\ pre.tasks[i].task = tasks[j].task
           /\ tasks[j].task.dependencies # <<>>
           /\ is_executable(pre.tasks[i].task, pre.completed_tasks)

\* C19: constructing a new store from the file between two calls changes no
\* later outcome: in every store whose file is up to date, the load
\* succeeds and gives the same pending multiset and completed set, and each
\* next call (add_task with any valid input, complete_task with any name,
\* next_task) ends the same way on the reloaded store as on the store itself.
NewItem(a) ==
    Item(IntValue(a.priority),
         Task(a.name, IntValue(a.priority), ListOr(a.dependencies, <<>>), a.due_date))

Completed(ts, cs, task_name) ==
    LET d == drain(ts, cs, <<>>, FALSE, task_name)
    IN  IF d.err # "none"
        THEN [tasks |-> d.tasks, completed_tasks |-> d.completed_tasks,
              task_found |-> d.task_found, err |-> d.err]
        ELSE LET r == restore(d.tasks, d.remaining_tasks)
             IN  [tasks |-> r.heap, completed_tasks |-> d.completed_tasks,
                  task_found |-> d.task_found, err |-> r.err]

FromFile == load_tasks(file)

C19_RestartTransparent ==
    (session = "up" /\ file = save_tasks(tasks, completed_tasks)) =>
        /\ FromFile.err = "none"
        /\ TaskBag(FromFile.tasks) = TaskBag(tasks)
        /\ FromFile.completed_tasks = completed_tasks
        /\ \A a \in ValidInputs :
               LET here == heappush(tasks, NewItem(a))
                   there == heappush(FromFile.tasks, NewItem(a))
               IN  /\ here.err = there.err
                   /\ TaskBag(here.heap) = TaskBag(there.heap)
        /\ \A task_name \in CompleteInputs :
               LET here == Completed(tasks, completed_tasks, task_name)
                   there == Completed(FromFile.tasks, FromFile.completed_tasks,
                                      task_name)
               IN  /\ here.err = there.err
                   /\ TaskBag(here.tasks) = TaskBag(there.tasks)
                   /\ here.completed_tasks = there.completed_tasks
        /\ (tasks # <<>> /\ FromFile.tasks # <<>>) =>
               FromFile.tasks[1].task = tasks[1].task

\* C20: when the pending tasks have distinct names and distinct priorities
\* and every dependency of a pending task names a pending task of strictly
\* smaller priority or a completed task, next_task does not report blocked.
Consistent ==
    /\ \A i, j \in 1..Len(tasks) :
           i # j => /\ tasks[i].task.name # tasks[j].task.name
                    /\ tasks[i].priority # tasks[j].priority
    /\ \A i \in 1..Len(tasks) :
           \A k \in 1..Len(tasks[i].task.dependencies) :
               \/ tasks[i].task.dependencies[k] \in completed_tasks
               \/ \E j \in 1..Len(tasks) :
                      /\ tasks[j].task.name = tasks[i].task.dependencies[k]
                      /\ tasks[j].priority < tasks[i].priority

C20_NeverBlocked ==
    (last.op = "next_task" /\ Consistent) => last.out # <<"no es ejecutable">>

\* C18: when the save at the end of add_task or complete_task fails, the
\* call raises the error and the store keeps the change: the added task is
\* pending, or no task of the completed name is pending, its name is in
\* completed if one was, and every task of another name is still pending.
SaveFailed ==
    /\ last.op \in {"add_task", "complete_task"}
    /\ pre.disk # "ok"
    /\ last.err \notin {"ValueError", "TypeError"}

C18_SaveFailureSurfaces ==
    SaveFailed =>
        /\ last.err = "OSError"
        /\ last.op = "add_task" =>
               /\ TaskBag(tasks) = TaskBag(pre.tasks) (+) SetToBag({AddedTask})
               /\ completed_tasks = pre.completed_tasks
        /\ Completing =>
               /\ Named(tasks, last.args.name) = {}
               /\ TaskBag(NotNamed(tasks, last.args.name))
                     = TaskBag(NotNamed(pre.tasks, last.args.name))
               /\ completed_tasks =
                     IF Named(pre.tasks, last.args.name) # {}
                     THEN pre.completed_tasks \cup {last.args.name}
                     ELSE pre.completed_tasks

C18_Witness ==
    /\ SaveFailed
    /\ Completing
    /\ Named(pre.tasks, last.args.name) # {}
    /\ tasks # <<>>
    /\ file # save_tasks(tasks, completed_tasks)

\* C17: right after a complete_task(name) call that found a task and
\* returned normally, a second complete_task(name), computed on the store
\* the first call left, returns normally without finding a task, and leaves
\* the pending multiset and the completed set as they are.
C17_SecondCompleteNotFound ==
    (Completing /\ last.err = "none" /\ Named(pre.tasks, last.args.name) # {}) =>
        LET second == Completed(tasks, completed_tasks, last.args.name)
        IN  /\ second.err = "none"
            /\ ~second.task_found
            /\ TaskBag(second.tasks) = TaskBag(tasks)
            /\ second.completed_tasks = completed_tasks

====
